---- MODULE Spec2Model ----
(***************************************************************************)
(* Model of pg-replica-auditor: the audit run `main` of                    *)
(* src/pgreplicaauditor/checksummer.py (impl = "pkg") and of the older     *)
(* src/checksummer.py (impl = "legacy"), with the functions they call:     *)
(* _func, connect, check, last_1000 and lag.  The two databases are the    *)
(* tables primaryDb and replicaDb; a row is the tuple <<id, updated_at>>,  *)
(* the two columns the program requires a table to have.                   *)
(***************************************************************************)
EXTENDS Integers, Sequences, FiniteSets, TLC

VARIABLES
    impl,           \* which source file's main is running
    primaryDb,      \* the table on the primary: id -> <<>> (no row) or <<updated_at>>
    replicaDb,      \* the table on the replica / destination
    primaryOpen,    \* the connection `primary` (`src`) is open
    replicaOpen,    \* the connection `replica` (`dest`) is open
    c1,             \* the database cursor c1 runs on
    c2,             \* the database cursor c2 runs on
    pc,             \* position of main
    i,              \* loop variable of main's sampling loop
    result,         \* main's local `result`, the last value check returned
    checked,        \* main's counter `checked`
    missing,        \* main's counter `missing`
    lookups,        \* the point lookups executed so far, <<database, id>> each
    r1,             \* last_1000's local r1
    r2,             \* last_1000's local r2
    idx,            \* last_1000's loop index
    row1,           \* last_1000's local row1 (<<>> while unbound)
    recChecked,     \* last_1000's counter `checked`
    recMissing,     \* last_1000's counter `missing`
    last1000Calls,  \* number of calls of last_1000
    lagCalls,       \* number of calls of lag
    lagValue,       \* <<>> or <<the value lag returned>>
    cause           \* <<>> or the exception that ended the run

vars == <<impl, primaryDb, replicaDb, primaryOpen, replicaOpen, c1, c2, pc, i,
          result, checked, missing, lookups, r1, r2, idx, row1, recChecked,
          recMissing, last1000Calls, lagCalls, lagValue, cause>>

(***************************************************************************)
(* Bounds and constants                                                    *)
(***************************************************************************)
MaxRows == 5
MaxId == 2
MaxTs == 1

\* ROWS = 8128 in both files; bounded here.
ROWS == MaxRows

\* LIMIT 1000 of the two queries of last_1000.
LIMIT == 1000

\* SQL NULL / Python None as a column value.
NULL == 0

\* Python None as the result of fetchone(): no row.
None == <<>>

Impls == {"pkg", "legacy"}
IdSpace == 0 .. MaxId
Timestamps == 1 .. MaxTs
Cells == {<<>>} \cup {<<t>> : t \in {NULL} \cup Timestamps}
Tables == [IdSpace -> Cells]

(***************************************************************************)
(* Sample generator                                                        *)
(***************************************************************************)
\* i ** 2.38 and i ** 2.4 in thousandths (floor of the double the
\* interpreter computes), for i = 0 .. 11.
Pow238 == <<0, 1000, 5205, 13663, 27095, 46083, 71121, 102643, 141043, 186679, 239883, 300964>>
Pow24 == <<0, 1000, 5278, 13966, 27857, 47591, 73716, 106717, 147033, 195066, 251188, 315749>>

\* Mutant: the exponent lost its integer part (i ** 0.38).
FuncSublinear(im, n) == <<0, 1000, 1301, 1518, 1693, 1843, 1975, 2094, 2203, 2304, 2398, 2487>>[n + 1]

_func(im, n) == IF im = "pkg" THEN Pow238[n + 1] ELSE Pow24[n + 1]

\* Python's round(): nearest integer, a tie goes to the even one.
round(x) ==
    LET q == x \div 1000
        f == x % 1000
    IN  IF f < 500 THEN q
        ELSE IF f > 500 THEN q + 1
        ELSE IF q % 2 = 0 THEN q ELSE q + 1

SampleId(im, n) == round(_func(im, n))

(***************************************************************************)
(* The queries, as the database answers them                               *)
(***************************************************************************)
Table(c) == IF c = "primary" THEN primaryDb ELSE replicaDb

Min(a, b) == IF a < b THEN a ELSE b

SetMax(S) == CHOOSE m \in S : \A x \in S : x <= m

RECURSIVE DescSeq(_)
DescSeq(S) == IF S = {} THEN <<>> ELSE <<SetMax(S)>> \o DescSeq(S \ {SetMax(S)})

Take(s, n) == SubSeq(s, 1, Min(n, Len(s)))

ToSet(s) == {s[k] : k \in 1 .. Len(s)}

\* SELECT * FROM table WHERE id = id_ LIMIT 1; fetchone()
SelectById(t, id_) ==
    IF id_ \in IdSpace /\ t[id_] # <<>> THEN <<id_>> \o t[id_] ELSE None

\* SELECT id FROM table ORDER BY id DESC LIMIT 1000; fetchall()
SelectIds(t) == Take(DescSeq({d \in IdSpace : t[d] # <<>>}), LIMIT)

\* SELECT * FROM table WHERE id IN (ids) ORDER BY id DESC LIMIT 1000; fetchall()
SelectRowsIn(t, ids) ==
    LET hit == Take(DescSeq({d \in IdSpace : t[d] # <<>> /\ d \in ToSet(ids)}), LIMIT)
    IN  [k \in 1 .. Len(hit) |-> <<hit[k]>> \o t[hit[k]]]

\* SELECT MAX(updated_at) FROM table; fetchone()[0]
MaxUpdatedAt(t) ==
    LET ts == {t[d][1] : d \in {e \in IdSpace : t[e] # <<>>}} \ {NULL}
    IN  IF ts = {} THEN NULL ELSE SetMax(ts)

\* dict(row) of a DictRow
dict(row) == [id |-> row[1], updated_at |-> row[2]]

(***************************************************************************)
(* check                                                                   *)
(***************************************************************************)
check(im, id_, cur1, cur2) ==
    LET f1 == SelectById(Table(cur1), id_)
        f2 == SelectById(Table(cur2), id_)
    IN  IF im = "pkg"
        THEN IF f1 = None \/ f2 = None THEN "None"
             ELSE IF dict(f1) # dict(f2) THEN "False" ELSE "True"
        ELSE IF f1 = None /\ f2 = None THEN "None"
             ELSE IF f1 # f2 THEN "False" ELSE "True"

(***************************************************************************)
(* main                                                                    *)
(***************************************************************************)
recVars == <<r1, r2, idx, row1, recChecked, recMissing>>
dbVars == <<impl, primaryDb, replicaDb>>
connVars == <<primaryOpen, replicaOpen, c1, c2>>

Connect ==
    /\ pc = "start"
    /\ primaryOpen' = TRUE
    /\ replicaOpen' = TRUE
    /\ c1' = "primary"
    /\ c2' = IF impl = "pkg" THEN "replica" ELSE "primary"
    /\ pc' = "sampling"
    /\ UNCHANGED <<dbVars, i, result, checked, missing, lookups, recVars,
                   last1000Calls, lagCalls, lagValue, cause>>

\* Mutant: a differing pair does not end the run; the loop goes on.
SampleStepNoRaise ==
    /\ pc = "sampling"
    /\ i < ROWS
    /\ LET id_ == round(_func(impl, i))
           res == check(impl, id_, c1, c2)
       IN  /\ result' = res
           /\ lookups' = lookups \o << <<c1, id_>>, <<c2, id_>> >>
           /\ missing' = IF res = "None" /\ impl = "pkg" THEN missing + 1 ELSE missing
           /\ checked' = IF res # "None" /\ impl = "pkg" THEN checked + 1 ELSE checked
           /\ i' = i + 1
           /\ pc' = IF i + 1 = ROWS THEN "last_1000" ELSE "sampling"
           /\ UNCHANGED cause
    /\ UNCHANGED <<dbVars, connVars, recVars, last1000Calls, lagCalls, lagValue>>

SampleStep ==
    /\ pc = "sampling"
    /\ i < ROWS
    /\ LET id_ == round(_func(impl, i))
           res == check(impl, id_, c1, c2)
       IN  /\ result' = res
           /\ lookups' = lookups \o << <<c1, id_>>, <<c2, id_>> >>
           /\ IF res = "False"
              THEN /\ pc' = "failed"
                   /\ cause' = <<"SampleMismatch", id_>>
                   /\ UNCHANGED <<i, checked, missing>>
              ELSE /\ missing' = IF res = "None" /\ impl = "pkg" THEN missing + 1 ELSE missing
                   /\ checked' = IF res = "True" /\ impl = "pkg" THEN checked + 1 ELSE checked
                   /\ i' = i + 1
                   /\ pc' = IF i + 1 = ROWS THEN "last_1000" ELSE "sampling"
                   /\ UNCHANGED cause
    /\ UNCHANGED <<dbVars, connVars, recVars, last1000Calls, lagCalls, lagValue>>

(***************************************************************************)
(* last_1000                                                               *)
(***************************************************************************)
\* The sequence the comparison loop enumerates: r2 in pkg, r1 in legacy.
LoopLen(im, f1, f2) == IF im = "pkg" THEN Len(f2) ELSE Len(f1)

\* Mutant: the two lengths are not compared.
Last1000FetchNoLenCheck ==
    /\ pc = "last_1000"
    /\ last1000Calls' = last1000Calls + 1
    /\ LET ids == SelectIds(Table(c2))
           f1 == SelectRowsIn(Table(c1), ids)
           f2 == SelectRowsIn(Table(c2), ids)
       IN  IF ids = <<>>
           THEN /\ pc' = "failed"
                /\ cause' = <<"SyntaxError">>
                /\ UNCHANGED recVars
           ELSE /\ r1' = f1
                /\ r2' = f2
                /\ idx' = 0
                /\ recChecked' = 0
                /\ recMissing' = 0
                /\ row1' = <<>>
                /\ pc' = IF LoopLen(impl, f1, f2) = 0 THEN "lag" ELSE "last_1000_loop"
                /\ UNCHANGED cause
    /\ UNCHANGED <<dbVars, connVars, i, result, checked, missing, lookups,
                   lagCalls, lagValue>>

\* The queries and, in pkg, the comparison of the two lengths.  An empty id
\* list makes the second query `... WHERE id IN () ...`, which the server
\* rejects, so execute() raises.
Last1000Fetch ==
    /\ pc = "last_1000"
    /\ last1000Calls' = last1000Calls + 1
    /\ LET ids == SelectIds(Table(c2))
           f1 == SelectRowsIn(Table(c1), ids)
           f2 == SelectRowsIn(Table(c2), ids)
       IN  IF ids = <<>>
           THEN /\ pc' = "failed"
                /\ cause' = <<"SyntaxError">>
                /\ UNCHANGED recVars
           ELSE /\ r1' = f1
                /\ r2' = f2
                /\ IF impl = "pkg" /\ Len(f1) # Len(f2)
                   THEN /\ pc' = "failed"
                        /\ cause' = <<"CountMismatch">>
                        /\ UNCHANGED <<idx, row1, recChecked, recMissing>>
                   ELSE /\ idx' = 0
                        /\ recChecked' = 0
                        /\ recMissing' = 0
                        /\ row1' = <<>>
                        /\ pc' = IF LoopLen(impl, f1, f2) = 0 THEN "lag" ELSE "last_1000_loop"
                        /\ UNCHANGED cause
    /\ UNCHANGED <<dbVars, connVars, i, result, checked, missing, lookups,
                   lagCalls, lagValue>>

\* Mutant: a differing pair of rows does not raise; the loop goes on.
StepPkgNoRaise ==
    LET bound == idx < Len(r1)
        new1 == IF bound THEN r1[idx + 1] ELSE row1
    IN  /\ row1' = new1
        /\ recMissing' = IF bound THEN recMissing ELSE recMissing + 1
        /\ recChecked' = recChecked + 1
        /\ idx' = idx + 1
        /\ pc' = IF idx + 1 = Len(r2) THEN "lag" ELSE "last_1000_loop"
        /\ UNCHANGED cause

\* One iteration of pkg's loop `for idx, row2 in enumerate(r2)`.
StepPkg ==
    LET row2 == r2[idx + 1]
        bound == idx < Len(r1)
        new1 == IF bound THEN r1[idx + 1] ELSE row1
    IN  /\ row1' = new1
        /\ recMissing' = IF bound THEN recMissing ELSE recMissing + 1
        /\ recChecked' = recChecked + 1
        /\ IF new1 = <<>>
           THEN /\ pc' = "failed"
                /\ cause' = <<"UnboundLocalError">>
                /\ UNCHANGED idx
           ELSE IF dict(new1) # dict(row2)
           THEN /\ pc' = "failed"
                /\ cause' = <<"RecencyMismatch", new1[1]>>
                /\ UNCHANGED idx
           ELSE /\ idx' = idx + 1
                /\ pc' = IF idx + 1 = Len(r2) THEN "lag" ELSE "last_1000_loop"
                /\ UNCHANGED cause

\* One iteration of legacy's loop `for idx, row1 in enumerate(r1)`.
StepLegacy ==
    LET new1 == r1[idx + 1]
    IN  /\ row1' = new1
        /\ UNCHANGED <<recMissing, recChecked>>
        /\ IF idx >= Len(r2)
           THEN /\ pc' = "failed"
                /\ cause' = <<"IndexError">>
                /\ UNCHANGED idx
           ELSE IF new1 # r2[idx + 1]
           THEN /\ pc' = "failed"
                /\ cause' = <<"RecencyMismatch", new1[1]>>
                /\ UNCHANGED idx
           ELSE /\ idx' = idx + 1
                /\ pc' = IF idx + 1 = Len(r1) THEN "lag" ELSE "last_1000_loop"
                /\ UNCHANGED cause

Last1000Step ==
    /\ pc = "last_1000_loop"
    /\ idx < LoopLen(impl, r1, r2)
    /\ IF impl = "pkg" THEN StepPkg ELSE StepLegacy
    /\ UNCHANGED <<dbVars, connVars, i, result, checked, missing, lookups, r1, r2,
                   last1000Calls, lagCalls, lagValue>>

(***************************************************************************)
(* lag, and the end of main                                                *)
(***************************************************************************)
\* r1 - r2 of two values of which either may be None: <<difference>>, or
\* <<>> when Python raises TypeError.
Minus(a, b) == IF a = NULL \/ b = NULL THEN <<>> ELSE <<a - b>>

lag(cur1, cur2) == Minus(MaxUpdatedAt(Table(cur1)), MaxUpdatedAt(Table(cur2)))

Lag ==
    /\ pc = "lag"
    /\ lagCalls' = lagCalls + 1
    /\ IF lag(c1, c2) = <<>>
       THEN /\ pc' = "failed"
            /\ cause' = <<"TypeError">>
            /\ UNCHANGED lagValue
       ELSE /\ lagValue' = lag(c1, c2)
            /\ pc' = "passed"
            /\ UNCHANGED cause
    /\ UNCHANGED <<dbVars, connVars, i, result, checked, missing, lookups, recVars,
                   last1000Calls>>

Next == Connect \/ SampleStep \/ Last1000Fetch \/ Last1000Step \/ Lag

Init ==
    /\ impl \in Impls
    /\ primaryDb \in Tables
    /\ replicaDb \in Tables
    /\ primaryOpen = FALSE
    /\ replicaOpen = FALSE
    /\ c1 = "unset"
    /\ c2 = "unset"
    /\ pc = "start"
    /\ i = 0
    /\ result = "unset"
    /\ checked = 0
    /\ missing = 0
    /\ lookups = <<>>
    /\ r1 = <<>>
    /\ r2 = <<>>
    /\ idx = 0
    /\ row1 = <<>>
    /\ recChecked = 0
    /\ recMissing = 0
    /\ last1000Calls = 0
    /\ lagCalls = 0
    /\ lagValue = <<>>
    /\ cause = <<>>

Spec == Init /\ [][Next]_vars

(***************************************************************************)
(* last_1000 called on its own with one cursor on each database            *)
(***************************************************************************)
InitFn ==
    /\ impl \in Impls
    /\ primaryDb \in Tables
    /\ replicaDb \in Tables
    /\ primaryOpen = TRUE
    /\ replicaOpen = TRUE
    /\ c1 = "primary"
    /\ c2 = "replica"
    /\ pc = "last_1000"
    /\ i = 0
    /\ result = "unset"
    /\ checked = 0
    /\ missing = 0
    /\ lookups = <<>>
    /\ r1 = <<>>
    /\ r2 = <<>>
    /\ idx = 0
    /\ row1 = <<>>
    /\ recChecked = 0
    /\ recMissing = 0
    /\ last1000Calls = 0
    /\ lagCalls = 0
    /\ lagValue = <<>>
    /\ cause = <<>>

NextFn == Last1000Fetch \/ Last1000Step

SpecFn == InitFn /\ [][NextFn]_vars

(***************************************************************************)
(* Properties                                                              *)
(***************************************************************************)
CauseKind == IF cause = <<>> THEN "none" ELSE cause[1]

Terminal == pc \in {"passed", "failed"}

\* The row comparator of the specification: Absent iff both rows are
\* missing, Match iff both are present and equal, Mismatch otherwise.
Compare(p, d) ==
    IF p = None /\ d = None THEN "None"
    ELSE IF p # None /\ d # None /\ p = d THEN "True"
    ELSE "False"

PrimaryRow(id_) == SelectById(primaryDb, id_)
ReplicaRow(id_) == SelectById(replicaDb, id_)
Diverges(id_) == Compare(PrimaryRow(id_), ReplicaRow(id_)) = "False"

SampleIndexes == 0 .. ROWS - 1

\* C1: whenever check has returned, its value is the comparator's
\* classification of the two rows its cursors fetched for the id it was
\* given: None iff both are missing, True iff both are present and equal,
\* False otherwise (so False when exactly one side has a row).
C1_CheckClassifies ==
    result # "unset" =>
        LET id_ == lookups[Len(lookups)][2]
        IN  result = Compare(SelectById(Table(c1), id_), SelectById(Table(c2), id_))

\* C2: once sampling is over, if some sampled id has a row on both sides
\* whose downstream copy differs and no earlier sampled id diverges, the run
\* has failed with the error naming that id.
C2_AlteredRowFails ==
    pc \notin {"start", "sampling"} =>
        \A n \in SampleIndexes :
            ( /\ PrimaryRow(SampleId(impl, n)) # None
              /\ ReplicaRow(SampleId(impl, n)) # None
              /\ PrimaryRow(SampleId(impl, n)) # ReplicaRow(SampleId(impl, n))
              /\ \A m \in 0 .. n - 1 : ~Diverges(SampleId(impl, m)) )
            => pc = "failed" /\ cause = <<"SampleMismatch", SampleId(impl, n)>>

\* C3: the run of the packaged main is Passed only if no sampled id is a
\* Mismatch under the specification's comparator and every row the recency
\* check fetched from the downstream is equal on the primary.
C3_PassedMeansNoMismatch ==
    (impl = "pkg" /\ pc = "passed") =>
        /\ \A n \in SampleIndexes : ~Diverges(SampleId(impl, n))
        /\ \A k \in 1 .. Len(r2) : PrimaryRow(r2[k][1]) = r2[k]

\* C4: sampling is fail-fast.  When check returns False the run is Failed
\* with the id just looked up as cause; in that state the lookups are
\* exactly those of the ids up to the failing one (two each, none later),
\* the counters hold only the earlier ids, and neither last_1000 nor lag has
\* been called.
C4_FailFast ==
    /\ result = "False" => pc = "failed" /\ CauseKind = "SampleMismatch"
    /\ CauseKind = "SampleMismatch" =>
        /\ pc = "failed"
        /\ result = "False"
        /\ cause[2] = SampleId(impl, i)
        /\ Len(lookups) = 2 * (i + 1)
        /\ \A k \in 1 .. Len(lookups) : lookups[k][2] <= cause[2]
        /\ impl = "pkg" => checked + missing = i
        /\ last1000Calls = 0
        /\ lagCalls = 0
        /\ r1 = <<>> /\ r2 = <<>> /\ lagValue = <<>>

C4_Witness ==
    /\ impl = "pkg"
    /\ pc = "failed"
    /\ CauseKind = "SampleMismatch"
    /\ i = 1
    /\ missing = 1

\* C5: once lag has been called by the packaged main it has returned a
\* value and the run is Passed; it never ends the run with an error.
C5_LagNeverFails ==
    (impl = "pkg" /\ lagCalls > 0) => pc = "passed" /\ lagValue # <<>>

\* C6: when the run has terminated, both connections are closed.
C6_ConnectionsClosed ==
    Terminal => ~primaryOpen /\ ~replicaOpen

\* C7: after last_1000 has fetched the two row lists, if their lengths
\* differ the call has failed with the count-mismatch error and no pair of
\* rows has been compared.
C7_CountMismatchFails ==
    (last1000Calls > 0 /\ Len(r1) # Len(r2)) =>
        /\ pc = "failed"
        /\ cause = <<"CountMismatch">>
        /\ idx = 0
        /\ row1 = <<>>

\* C8: for both exponents the sample ids round(_func(n)) are strictly
\* increasing over every tabulated n (so over [0, ROWS)), and the ids main
\* has looked up are exactly the first ids of that sequence, in that order,
\* whatever the tables hold.
C8_SampleIdsAscend ==
    /\ ROWS <= Len(Pow238) /\ ROWS <= Len(Pow24)
    /\ \A im \in Impls : \A n \in 0 .. Len(Pow238) - 2 : SampleId(im, n) < SampleId(im, n + 1)
    /\ \A k \in 1 .. Len(lookups) : lookups[k][2] = SampleId(impl, (k - 1) \div 2)
    /\ \A k \in 1 .. Len(lookups) - 2 : lookups[k][2] < lookups[k + 2][2]

C8_Witness ==
    /\ Len(lookups) = 2 * ROWS
    /\ pc = "last_1000"

\* The positions at which the two fetched lists differ.
DiffPositions == {k \in 1 .. Min(Len(r1), Len(r2)) : r1[k] # r2[k]}

SetMin(S) == CHOOSE m \in S : \A x \in S : m <= x

\* C9: in last_1000, when the two lists have equal length, the rows are in
\* descending id order; if some position differs the loop never gets past
\* the first such position, the call never returns normally, and when it
\* has failed the error names the id of the row at that position and the
\* index still points at it; if no position differs the call does not fail.
C9_FirstMismatchFails ==
    (pc \in {"last_1000_loop", "lag", "failed"} /\ r2 # <<>> /\ Len(r1) = Len(r2)) =>
        /\ \A k \in 1 .. Len(r1) - 1 : r1[k][1] > r1[k + 1][1]
        /\ IF DiffPositions = {}
           THEN pc # "failed"
           ELSE /\ pc # "lag"
                /\ idx < SetMin(DiffPositions)
                /\ pc = "failed" =>
                    /\ idx = SetMin(DiffPositions) - 1
                    /\ cause = <<"RecencyMismatch", r1[idx + 1][1]>>

C9_Witness ==
    /\ impl = "pkg"
    /\ pc = "failed"
    /\ CauseKind = "RecencyMismatch"
    /\ idx = 1
    /\ Len(r2) = 3
    /\ r1[3] # r2[3]

\* C10: in the packaged last_1000 the counter missing is never incremented,
\* the loop index is always inside the primary's list, and when the call
\* has returned normally checked is the number of rows fetched from the
\* downstream.
C10_MissingIsZero ==
    impl = "pkg" =>
        /\ recMissing = 0
        /\ pc = "last_1000_loop" => idx < Len(r1)
        /\ pc = "lag" => recChecked = Len(r2) /\ idx = Len(r2)

C10_Witness ==
    /\ impl = "pkg"
    /\ pc = "lag"
    /\ recChecked = MaxId + 1

====
